---- MODULE Spec2Model ----
(***************************************************************************)
(* LunaHR (src/lunahr.py): the connection supervisor of MainWindow, the    *)
(* two transport threads (PolarWorker, PulsoidWorker) and the OSC          *)
(* publisher.                                                              *)
(*                                                                         *)
(* Time is in whole seconds.  The code reads the clock (time.time()) only  *)
(* to store it and to subtract a stored reading from a later one, so every *)
(* stored timestamp is kept relative to the current instant: `now` is 0, a *)
(* reading taken d seconds ago is -d, a timer due in d seconds is d, and   *)
(* the passing of time moves every stored reading back.  The clock of the  *)
(* model is self.watchdog: time passes from one expiry of that timer to    *)
(* the next (WatchdogTick).  A reading is not kept older than the          *)
(* threshold the code compares its age with.                               *)
(*                                                                         *)
(* A handler of the GUI thread runs to completion as one step and reads    *)
(* one clock value.  Signals of a worker thread reach the GUI thread       *)
(* through the queued connections made in start_worker: they are appended  *)
(* to `queue` and handled later, in order, whether or not the emitting     *)
(* worker is still the supervisor's worker (the connections are never      *)
(* undone).  The GUI thread is idle between handlers, so it takes a queued *)
(* signal or an expired timer before a worker thread returns from its next *)
(* await and before the watchdog expires again.                            *)
(***************************************************************************)

EXTENDS Integers, Sequences, FiniteSets, Bags, TLC

\* ---------------------------------------------------------------- bounds
MaxOrphans == 1
MaxTimers == 1
MaxSinks == 3
MaxBpm == 999
MaxSamples == 1
MaxBuffer == 3
MaxSampleAge == 5

\* ------------------------------------------------------ program constants
RECONNECT_COOLDOWN_SECONDS == 15
reconnect_timeout == 30
reconnect_delay_seconds == 5
reconnect_max_seconds == 180
WatchdogIntervalSeconds == 5
snap_back_seconds == 30
SnapbackIntervalSeconds == 1
RSSI_MIN_INTERVAL_SECONDS == 60
HeartbeatIntervalSeconds == 60
RssiFreshSeconds == 90

\* time.time(), the instant every stored reading is relative to.
now == 0

\* Python's None for a timestamp and for a string.
None == 9999
NoAddress == "None"

\* `not x` of Python for a timestamp: None (time.time() is never 0.0).
Falsy(t) == t = None

Max(a, b) == IF a >= b THEN a ELSE b

\* ------------------------------------------------------------ status texts
TextSearching == "Searching for Polar H10..."
TextNotFound == "Polar H10 not found."
TextConnectingPolar == "Connecting to Polar H10..."
TextConnectedPolar == "Connected. Streaming heart rate..."
TextCancelled == "Connection error: cancelled"
TextFault == "Connection error: fault"
TextNoToken == "Pulsoid token not set (open Settings)."
TextConnectingPulsoid == "Connecting to Pulsoid..."
TextConnectedPulsoid == "Connected. Streaming heart rate (Pulsoid)..."

StatusTexts ==
    { TextSearching, TextNotFound, TextConnectingPolar, TextConnectedPolar,
      TextCancelled, TextFault, TextNoToken, TextConnectingPulsoid,
      TextConnectedPulsoid }

\* "connection error" in text.lower()
HasConnectionError(text) == text \in { TextCancelled, TextFault }

\* "error" in lower or "not found" in lower or "failed" in lower
HasAlertWord(text) == text \in { TextCancelled, TextFault, TextNotFound }

\* ------------------------------------------------------------------ inputs
Sources == { "polar", "pulsoid" }
Tokens == { "", " ", "tok" }
Bpms == { 72 }
DeviceAddr == "AA:BB"

\* str.strip() on the tokens of the model
Strip(token) == IF token = " " THEN "" ELSE token

\* ------------------------------------------------------------------- state
VARIABLES
    cfg_source, cfg_token,      \* self.cfg["source"], self.cfg["pulsoid_token"]
    worker,                     \* self.worker: its thread, or NoWorker
    current_source,
    last_hr_time, last_hr_value,
    reconnecting, reconnect_scheduled,
    reconnect_started_at, last_reconnect_attempt_at,
    connect_enabled,            \* self.connect_btn.isEnabled()
    device_address,
    orphans,                    \* bag of threads still running that the
                                \* supervisor has stopped and dropped
    queue,                      \* queued signals for the GUI thread
    timers,                     \* pending singleShot(_restart_connection)
    osc_clients,                \* self.osc_clients: the sinks' ports, in order
    osc_fail,                   \* the send_message call that raises, if any
    osc_sent,                   \* the messages of the last publish, by sink
    x_data, y_data,             \* the graph's buffer: timestamps and samples
    follow_live,
    last_user_interaction,
    _programmatic_range_change,
    push_notifies,              \* the view box calls its interaction hook
                                \* while plot.setXRange runs
    rssi_worker,                \* self.rssi_worker: "None", or its thread
                                \* "running" or "finished"
    rssi_probes,                \* the RSSIWorker threads that are running
    rssi_signals,               \* queued rssi_signal emissions
    _last_rssi_request_at,
    last_rssi_value, last_rssi_time,
    last_probe_at,              \* history: when an RSSIWorker last started
    probe_gap,                  \* history: time between the last two starts
    elapsed,                    \* history: the seconds the last step took
    alerted,                    \* the last step showed QMessageBox.warning
    connected_at,               \* history: when self.worker reported
                                \* "Connected", no sample or cycle since
    last_op,                    \* history: the handler that ran last
    was_reconnecting,           \* history: `reconnecting` when it began
    gave_up,                    \* history: gave up, no connect click since
    last_restart_at,            \* history: last restart of the open cycle
    stall_transitions           \* history: watchdog transitions since a sample

vars ==
    << cfg_source, cfg_token, worker, current_source, last_hr_time,
       last_hr_value, reconnecting, reconnect_scheduled, reconnect_started_at,
       last_reconnect_attempt_at, connect_enabled, device_address, orphans,
       queue, timers, osc_clients, osc_fail, osc_sent, x_data, y_data,
       follow_live, last_user_interaction, _programmatic_range_change,
       push_notifies, rssi_worker, rssi_probes, rssi_signals,
       _last_rssi_request_at, last_rssi_value, last_rssi_time,
       last_probe_at, probe_gap, elapsed, alerted, connected_at, last_op,
       was_reconnecting, gave_up,
       last_restart_at, stall_transitions >>

\* The fields of MainWindow (and the objects it owns) that the handlers
\* rewrite, as one record: a handler is an operator from record to record.
\* last_probe_at and connected_at ride in the record for the clock to age
\* them, `elapsed` for
\* the clock to count in, and `alerted` for the handler to raise.
MainWindow ==
    [ worker |-> worker,
      current_source |-> current_source,
      last_hr_time |-> last_hr_time,
      last_hr_value |-> last_hr_value,
      reconnecting |-> reconnecting,
      reconnect_scheduled |-> reconnect_scheduled,
      reconnect_started_at |-> reconnect_started_at,
      last_reconnect_attempt_at |-> last_reconnect_attempt_at,
      connect_enabled |-> connect_enabled,
      device_address |-> device_address,
      orphans |-> orphans,
      queue |-> queue,
      timers |-> timers,
      osc_sent |-> osc_sent,
      x_data |-> x_data,
      y_data |-> y_data,
      follow_live |-> follow_live,
      last_user_interaction |-> last_user_interaction,
      _programmatic_range_change |-> _programmatic_range_change,
      rssi_worker |-> rssi_worker,
      rssi_probes |-> rssi_probes,
      rssi_signals |-> rssi_signals,
      _last_rssi_request_at |-> _last_rssi_request_at,
      last_rssi_value |-> last_rssi_value,
      last_rssi_time |-> last_rssi_time,
      last_probe_at |-> last_probe_at,
      connected_at |-> connected_at,
      elapsed |-> 0,
      alerted |-> FALSE ]

Become(s) ==
    /\ worker' = s.worker
    /\ current_source' = s.current_source
    /\ last_hr_time' = s.last_hr_time
    /\ last_hr_value' = s.last_hr_value
    /\ reconnecting' = s.reconnecting
    /\ reconnect_scheduled' = s.reconnect_scheduled
    /\ reconnect_started_at' = s.reconnect_started_at
    /\ last_reconnect_attempt_at' = s.last_reconnect_attempt_at
    /\ connect_enabled' = s.connect_enabled
    /\ device_address' = s.device_address
    /\ orphans' = s.orphans
    /\ queue' = s.queue
    /\ timers' = s.timers
    /\ osc_sent' = s.osc_sent
    /\ x_data' = s.x_data
    /\ y_data' = s.y_data
    /\ follow_live' = s.follow_live
    /\ last_user_interaction' = s.last_user_interaction
    /\ _programmatic_range_change' = s._programmatic_range_change
    /\ rssi_worker' = s.rssi_worker
    /\ rssi_probes' = s.rssi_probes
    /\ rssi_signals' = s.rssi_signals
    /\ _last_rssi_request_at' = s._last_rssi_request_at
    /\ last_rssi_value' = s.last_rssi_value
    /\ last_rssi_time' = s.last_rssi_time

\* -------------------------------------------------------------------- time
\* A reading t, `seconds` later; `horizon` is the largest age the code
\* compares a reading of this kind with.
EarlierBy(t, seconds, horizon) ==
    IF t = None THEN None ELSE Max(t - seconds, 0 - horizon)

\* A reading t, one watchdog interval later.
Earlier(t, horizon) == EarlierBy(t, WatchdogIntervalSeconds, horizon)

\* The window, `seconds` later.  The code compares no age of a buffered
\* timestamp with anything: the buffer keeps them up to MaxSampleAge.
AgedBy(s, seconds) ==
    [s EXCEPT
       !.last_hr_time = EarlierBy(@, seconds,
                                  reconnect_timeout + WatchdogIntervalSeconds),
       !.reconnect_started_at = EarlierBy(@, seconds, reconnect_max_seconds),
       !.last_reconnect_attempt_at =
            EarlierBy(@, seconds, RECONNECT_COOLDOWN_SECONDS),
       !.timers = [i \in 1..Len(@) |-> EarlierBy(@[i], seconds, 0)],
       !.x_data = [i \in 1..Len(@) |-> EarlierBy(@[i], seconds, MaxSampleAge)],
       !.last_user_interaction = EarlierBy(@, seconds, snap_back_seconds),
       !._last_rssi_request_at =
            EarlierBy(@, seconds, RSSI_MIN_INTERVAL_SECONDS),
       !.last_rssi_time = EarlierBy(@, seconds, RssiFreshSeconds),
       !.last_probe_at = EarlierBy(@, seconds, RSSI_MIN_INTERVAL_SECONDS),
       !.connected_at =
            EarlierBy(@, seconds, reconnect_timeout + WatchdogIntervalSeconds),
       !.elapsed = @ + seconds]

\* The window, one watchdog interval later.
Aged(s) == AgedBy(s, WatchdogIntervalSeconds)

\* ----------------------------------------------------------------- threads
\* A thread is where its run() is (pc), its `running` flag and, for a Pulsoid
\* worker, its token.  self.worker is None, or a thread.
NoWorker == [kind |-> "none", pc |-> "none", running |-> FALSE, token |-> ""]

\* A thread whose run() has returned.
Finished == [kind |-> "none", pc |-> "done", running |-> FALSE, token |-> ""]

PolarWorker_init ==
    [kind |-> "polar", pc |-> "start", running |-> TRUE, token |-> ""]

\* PulsoidWorker.__init__ keeping the token as it was typed.
PulsoidWorker_init_unstripped(token) ==
    [kind |-> "pulsoid", pc |-> "start", running |-> TRUE, token |-> token]

PulsoidWorker_init(token) ==
    [kind |-> "pulsoid", pc |-> "start", running |-> TRUE,
     token |-> Strip(token)]

\* PolarWorker.stop and PulsoidWorker.stop
Worker_stop(t) == [t EXCEPT !.running = FALSE]

\* Signal.emit from a worker thread: a queued call of the connected slot.
\* `stale` says that the emitting thread is not self.worker (any more).
Signal(sig, val) == [sig |-> sig, val |-> val, stale |-> FALSE]

\* The thread goes on at pc, having emitted the signals of `emits`.
Goes(t, pc, emits) == [thread |-> [t EXCEPT !.pc = pc], emits |-> emits]

\* run() returns, the thread having emitted the signals of `emits`.
Returns(emits) == [thread |-> Finished, emits |-> emits]

\* One step of PolarWorker.run_ble in thread t, from one await to the next.
\* c is what the environment answers at the await, bpm the value of a
\* notification.
run_ble(t, c, bpm) ==
    CASE t.pc = "start" ->
            Goes(t, "searching", << Signal("status", TextSearching) >>)
      [] t.pc = "searching" /\ c = "fail" ->
            Returns(<< Signal("status", TextNotFound) >>)
      [] t.pc = "searching" /\ c = "ok" ->
            Goes(t, "connecting",
                 << Signal("addr", DeviceAddr),
                    Signal("status", TextConnectingPolar) >>)
      [] t.pc = "connecting" /\ c = "fail" ->
            Returns(<< Signal("status", TextFault) >>)
      [] t.pc = "connecting" /\ c = "ok" ->
            \* start_notify, then the first test of `while self.running`
            IF t.running
            THEN Goes(t, "streaming",
                      << Signal("status", TextConnectedPolar) >>)
            ELSE Returns(<< Signal("status", TextConnectedPolar) >>)
      [] t.pc = "streaming" /\ c = "sample" ->
            \* handle_hr: emitted whatever self.running is
            Goes(t, "streaming", << Signal("hr", bpm) >>)
      [] OTHER -> Goes(t, t.pc, << >>)

\* One step of PulsoidWorker.run_ws in thread t.
run_ws(t, c, bpm) ==
    CASE t.pc = "start" ->
            IF t.token = ""
            THEN Returns(<< Signal("status", TextNoToken) >>)
            ELSE Goes(t, "connecting",
                      << Signal("status", TextConnectingPulsoid) >>)
      [] t.pc = "connecting" /\ c = "fail" ->
            Returns(<< Signal("status", TextFault) >>)
      [] t.pc = "connecting" /\ c = "ok" ->
            IF t.running
            THEN Goes(t, "streaming",
                      << Signal("status", TextConnectedPulsoid) >>)
            ELSE Returns(<< Signal("status", TextConnectedPulsoid) >>)
      [] t.pc = "streaming" /\ c = "sample" ->
            \* ws.recv() returned a heart rate: it is emitted, and then
            \* `while self.running` is tested
            IF t.running
            THEN Goes(t, "streaming", << Signal("hr", bpm) >>)
            ELSE Returns(<< Signal("hr", bpm) >>)
      [] t.pc = "streaming" /\ c = "garbage" ->
            \* a message that decodes to no heart rate
            IF t.running THEN Goes(t, "streaming", << >>) ELSE Returns(<< >>)
      [] t.pc = "streaming" /\ c = "fail" ->
            Returns(<< Signal("status", TextFault) >>)
      [] OTHER -> Goes(t, t.pc, << >>)

run(t, c, bpm) ==
    IF t.kind = "polar" THEN run_ble(t, c, bpm) ELSE run_ws(t, c, bpm)

\* What can happen at the await thread t is at.
Choices(t) ==
    CASE t.pc = "start" -> { "ok" }
      [] t.pc \in { "searching", "connecting" } -> { "ok", "fail" }
      [] t.pc = "streaming" /\ t.kind = "polar" -> { "sample" }
      [] t.pc = "streaming" /\ t.kind = "pulsoid" /\ t.running ->
            { "sample", "fail" }
      [] t.pc = "streaming" /\ t.kind = "pulsoid" /\ ~t.running ->
            { "sample", "garbage", "fail" }
      [] OTHER -> {}

\* QThread.wait(3000) on thread t, after stop().  A Polar thread in its loop
\* wakes from asyncio.sleep(1), sees running = False and returns in time
\* ("exit"), possibly after one more notification ("exit_sample").  Any other
\* thread is at an await that does not look at `running`: the wait returns
\* with the thread where it is ("timeout"), and what the thread does later,
\* in or after the 3 s, is a later step of that thread.
wait(t, o) ==
    IF t.kind = "polar" /\ t.pc = "streaming"
    THEN IF o = "exit_sample"
         THEN Returns(<< Signal("hr", CHOOSE b \in Bpms : TRUE) >>)
         ELSE Returns(<< >>)
    ELSE Goes(t, t.pc, << >>)

WaitOutcomes(s) ==
    IF s.worker.kind = "polar" /\ s.worker.pc = "streaming"
    THEN { "exit", "exit_sample" }
    ELSE { "timeout" }

\* The signals of q, their emitter no longer being self.worker.
Stale(q) == [i \in 1..Len(q) |-> [q[i] EXCEPT !.stale = TRUE]]

\* ------------------------------------------------------ worker start/stop
stop_worker(s, o) ==
    IF s.worker = NoWorker THEN s
    ELSE LET waited == wait(Worker_stop(s.worker), o) IN
         [s EXCEPT !.worker = NoWorker,
                   !.queue = Stale(@ \o waited.emits),
                   !.orphans = IF waited.thread.pc = "done" THEN @
                               ELSE @ (+) SetToBag({ waited.thread })]

start_worker(s, o) ==
    LET s1 == stop_worker(s, o)
        src == cfg_source
    IN  [s1 EXCEPT !.current_source = src,
                   !.worker = IF src = "polar"
                              THEN PolarWorker_init
                              ELSE PulsoidWorker_init(cfg_token)]

\* --------------------------------------------------------------------- OSC
\* OscMessages with the tens digit left unreduced.
OscMessages_unreduced(heart_rate) ==
    << [path |-> "/avatar/parameters/hr/ones_hr",
        value |-> heart_rate % 10],
       [path |-> "/avatar/parameters/hr/tens_hr",
        value |-> heart_rate \div 10],
       [path |-> "/avatar/parameters/hr/hundreds_hr",
        value |-> (heart_rate \div 100) % 10],
       [path |-> "/avatar/parameters/hr/heart_rate",
        value |-> heart_rate] >>

OscMessages(heart_rate) ==
    << [path |-> "/avatar/parameters/hr/ones_hr",
        value |-> heart_rate % 10],
       [path |-> "/avatar/parameters/hr/tens_hr",
        value |-> (heart_rate \div 10) % 10],
       [path |-> "/avatar/parameters/hr/hundreds_hr",
        value |-> (heart_rate \div 100) % 10],
       [path |-> "/avatar/parameters/hr/heart_rate",
        value |-> heart_rate] >>

NoOscFailure == [sink |-> 0, msg |-> 0]

\* The `for client in self.osc_clients` loop from client i on, inside the
\* try: the send_message call osc_fail names raises, which leaves the loop.
RECURSIVE SendToClients(_, _, _)
SendToClients(i, sent, heart_rate) ==
    IF i > Len(osc_clients) THEN sent
    ELSE IF osc_fail.sink = i
    THEN [sent EXCEPT ![i] = SubSeq(OscMessages(heart_rate), 1,
                                    osc_fail.msg - 1)]
    ELSE SendToClients(i + 1, [sent EXCEPT ![i] = OscMessages(heart_rate)],
                       heart_rate)

send_heart_rate_osc(s, heart_rate) ==
    [s EXCEPT !.osc_sent =
        SendToClients(1, [i \in 1..Len(osc_clients) |-> << >>], heart_rate)]

\* ------------------------------------------------- helpers: reconnect cycle
_enter_reconnect_cycle(s) ==
    IF Falsy(s.reconnect_started_at)
    THEN [s EXCEPT !.reconnect_started_at = now]
    ELSE s

\* The budget test with > for >=.
_reconnect_time_exceeded_strict(s) ==
    IF Falsy(s.reconnect_started_at) THEN FALSE
    ELSE now - s.reconnect_started_at > reconnect_max_seconds

_reconnect_time_exceeded(s) ==
    IF Falsy(s.reconnect_started_at) THEN FALSE
    ELSE now - s.reconnect_started_at >= reconnect_max_seconds

\* _exit_reconnect_cycle_to_idle without `self.reconnect_started_at = None`.
_exit_reconnect_cycle_to_idle_keeping_start(s, o) ==
    stop_worker([s EXCEPT !.reconnecting = FALSE,
                          !.reconnect_scheduled = FALSE,
                          !.last_hr_time = None,
                          !.last_reconnect_attempt_at = None,
                          !.connect_enabled = TRUE], o)

_exit_reconnect_cycle_to_idle(s, o) ==
    stop_worker([s EXCEPT !.reconnecting = FALSE,
                          !.reconnect_scheduled = FALSE,
                          !.reconnect_started_at = None,
                          !.last_hr_time = None,
                          !.last_reconnect_attempt_at = None,
                          !.connect_enabled = TRUE], o)

_can_attempt_reconnect_now(s) ==
    IF s.last_reconnect_attempt_at = None THEN TRUE
    ELSE now - s.last_reconnect_attempt_at >= RECONNECT_COOLDOWN_SECONDS

_remaining_reconnect_cooldown(s) ==
    IF s.last_reconnect_attempt_at = None THEN 0
    ELSE Max(RECONNECT_COOLDOWN_SECONDS - (now - s.last_reconnect_attempt_at),
             0)

\* QTimer.singleShot(delay, self._restart_connection)
singleShot(s, delay) == [s EXCEPT !.timers = Append(@, now + delay)]

\* --------------------------------------------------- explore/live tracking
\* on_user_interaction without the test of _programmatic_range_change.
on_user_interaction_unguarded(s) ==
    [s EXCEPT !.follow_live = FALSE, !.last_user_interaction = now]

on_user_interaction(s) ==
    IF s._programmatic_range_change THEN s
    ELSE [s EXCEPT !.follow_live = FALSE, !.last_user_interaction = now]

\* plot.setXRange runs between the two assignments of the flag; a call of
\* the view box's hook from inside it is a call of on_user_interaction.
update_live_view(s) ==
    IF ~s.follow_live \/ s.x_data = << >> THEN s
    ELSE LET pushing == [s EXCEPT !._programmatic_range_change = TRUE]
             pushed == IF push_notifies THEN on_user_interaction(pushing)
                       ELSE pushing
         IN  [pushed EXCEPT !._programmatic_range_change = FALSE]

snap_to_live(s) ==
    update_live_view([s EXCEPT !.follow_live = TRUE,
                               !.last_user_interaction = None])

\* check_snapback snapping back only after more than snap_back_seconds.
check_snapback_late(s) ==
    IF s.follow_live THEN s
    ELSE IF Falsy(s.last_user_interaction) THEN s
    ELSE IF now - s.last_user_interaction > snap_back_seconds
    THEN [s EXCEPT !.follow_live = TRUE, !.last_user_interaction = None]
    ELSE s

check_snapback(s) ==
    IF s.follow_live THEN s
    ELSE IF Falsy(s.last_user_interaction) THEN s
    ELSE IF now - s.last_user_interaction >= snap_back_seconds
    THEN snap_to_live(s)
    ELSE s

\* ---------------------------------------------------------------- handlers
on_connect_clicked(s, o) ==
    start_worker([s EXCEPT !.connect_enabled = FALSE,
                           !.reconnecting = FALSE,
                           !.reconnect_scheduled = FALSE,
                           !.reconnect_started_at = None,
                           !.last_reconnect_attempt_at = None], o)

on_device_address(s, addr) == [s EXCEPT !.device_address = addr]

\* on_hr_update without `self.last_reconnect_attempt_at = None`.
on_hr_update_keeping_attempt(s, bpm) ==
    LET s1 == IF s.reconnecting
              THEN [s EXCEPT !.reconnecting = FALSE,
                             !.reconnect_scheduled = FALSE,
                             !.reconnect_started_at = None]
              ELSE s
        s2 == [s1 EXCEPT !.last_hr_time = now, !.last_hr_value = bpm]
        s3 == [s2 EXCEPT !.x_data = Append(@, now), !.y_data = Append(@, bpm)]
    IN  send_heart_rate_osc(update_live_view(s3), bpm)

\* on_hr_update inserting the pair at the front of the buffer.
on_hr_update_prepending(s, bpm) ==
    LET s1 == IF s.reconnecting
              THEN [s EXCEPT !.reconnecting = FALSE,
                             !.reconnect_scheduled = FALSE,
                             !.reconnect_started_at = None,
                             !.last_reconnect_attempt_at = None]
              ELSE s
        s2 == [s1 EXCEPT !.last_hr_time = now, !.last_hr_value = bpm]
        s3 == [s2 EXCEPT !.x_data = << now >> \o @, !.y_data = << bpm >> \o @]
    IN  send_heart_rate_osc(update_live_view(s3), bpm)

on_hr_update(s, bpm) ==
    LET s1 == IF s.reconnecting
              THEN [s EXCEPT !.reconnecting = FALSE,
                             !.reconnect_scheduled = FALSE,
                             !.reconnect_started_at = None,
                             !.last_reconnect_attempt_at = None]
              ELSE s
        s2 == [s1 EXCEPT !.last_hr_time = now, !.last_hr_value = bpm]
        s3 == [s2 EXCEPT !.x_data = Append(@, now), !.y_data = Append(@, bpm)]
    IN  send_heart_rate_osc(update_live_view(s3), bpm)

\* reconnect returning, inside the cooldown, without scheduling anything.
reconnect_dropping(s, o) ==
    IF s.reconnect_scheduled THEN s
    ELSE IF s.reconnecting /\ _reconnect_time_exceeded(s)
    THEN _exit_reconnect_cycle_to_idle(s, o)
    ELSE IF ~_can_attempt_reconnect_now(s)
    THEN s
    ELSE singleShot(
             stop_worker([s EXCEPT !.last_reconnect_attempt_at = now,
                                   !.reconnect_scheduled = TRUE], o),
             reconnect_delay_seconds)

reconnect(s, o) ==
    IF s.reconnect_scheduled THEN s
    ELSE IF s.reconnecting /\ _reconnect_time_exceeded(s)
    THEN _exit_reconnect_cycle_to_idle(s, o)
    ELSE IF ~_can_attempt_reconnect_now(s)
    THEN \* int(max(rem, 0.5) * 1000) ms: rem is a whole number >= 1 here
         singleShot([s EXCEPT !.reconnect_scheduled = TRUE],
                    _remaining_reconnect_cooldown(s))
    ELSE singleShot(
             stop_worker([s EXCEPT !.last_reconnect_attempt_at = now,
                                   !.reconnect_scheduled = TRUE], o),
             reconnect_delay_seconds)

\* on_status_update stamping the cycle's start at every connection error.
on_status_update_restamping(s, text, o) ==
    IF HasConnectionError(text)
    THEN LET s1 == [s EXCEPT !.reconnecting = TRUE,
                             !.reconnect_started_at = now]
         IN  IF _reconnect_time_exceeded(s1)
             THEN _exit_reconnect_cycle_to_idle(s1, o)
             ELSE reconnect([s1 EXCEPT !.last_hr_time = None], o)
    ELSE IF HasAlertWord(text) /\ ~s.reconnecting
    THEN [s EXCEPT !.alerted = TRUE, !.connect_enabled = TRUE]
    ELSE s

\* on_status_update without `and not self.reconnecting`.
on_status_update_alerting(s, text, o) ==
    IF HasConnectionError(text)
    THEN LET s1 == IF ~s.reconnecting
                   THEN _enter_reconnect_cycle([s EXCEPT !.reconnecting = TRUE])
                   ELSE s
         IN  IF _reconnect_time_exceeded(s1)
             THEN _exit_reconnect_cycle_to_idle(s1, o)
             ELSE reconnect([s1 EXCEPT !.last_hr_time = None], o)
    ELSE IF HasAlertWord(text)
    THEN [s EXCEPT !.alerted = TRUE, !.connect_enabled = TRUE]
    ELSE s

on_status_update(s, text, o) ==
    IF HasConnectionError(text)
    THEN LET s1 == IF ~s.reconnecting
                   THEN _enter_reconnect_cycle([s EXCEPT !.reconnecting = TRUE])
                   ELSE s
         IN  IF _reconnect_time_exceeded(s1)
             THEN _exit_reconnect_cycle_to_idle(s1, o)
             ELSE reconnect([s1 EXCEPT !.last_hr_time = None], o)
    ELSE IF HasAlertWord(text) /\ ~s.reconnecting
    THEN [s EXCEPT !.alerted = TRUE, !.connect_enabled = TRUE]
    ELSE s

\* check_heartbeat_timeout without `self.last_hr_time = None`.
check_heartbeat_timeout_keeping_time(s, o) ==
    IF s.reconnecting \/ s.reconnect_scheduled
    THEN IF s.reconnecting /\ _reconnect_time_exceeded(s)
         THEN _exit_reconnect_cycle_to_idle(s, o)
         ELSE s
    ELSE IF s.worker = NoWorker \/ Falsy(s.last_hr_time) THEN s
    ELSE IF now - s.last_hr_time > reconnect_timeout
    THEN LET s1 == _enter_reconnect_cycle([s EXCEPT !.reconnecting = TRUE])
         IN  IF _reconnect_time_exceeded(s1)
             THEN _exit_reconnect_cycle_to_idle(s1, o)
             ELSE reconnect(s1, o)
    ELSE s

check_heartbeat_timeout(s, o) ==
    IF s.reconnecting \/ s.reconnect_scheduled
    THEN IF s.reconnecting /\ _reconnect_time_exceeded(s)
         THEN _exit_reconnect_cycle_to_idle(s, o)
         ELSE s
    ELSE IF s.worker = NoWorker \/ Falsy(s.last_hr_time) THEN s
    ELSE IF now - s.last_hr_time > reconnect_timeout
    THEN LET s1 == [_enter_reconnect_cycle([s EXCEPT !.reconnecting = TRUE])
                       EXCEPT !.last_hr_time = None]
         IN  IF _reconnect_time_exceeded(s1)
             THEN _exit_reconnect_cycle_to_idle(s1, o)
             ELSE reconnect(s1, o)
    ELSE s

_restart_connection(s, o) ==
    LET s1 == [s EXCEPT !.reconnect_scheduled = FALSE] IN
    IF s1.reconnecting /\ _reconnect_time_exceeded(s1)
    THEN _exit_reconnect_cycle_to_idle(s1, o)
    ELSE start_worker(s1, o)

\* ------------------------------------------------------------- RSSI probes
\* What an RSSIWorker emits: the rssi of the device (an int), or None when
\* the device is not among the discovered ones or the scan raised.
RssiReadings ==
    { [type |-> "int", value |-> 0 - 60], [type |-> "NoneType", value |-> 0] }

\* request_rssi_update without the rate limit.
request_rssi_update_unlimited(s) ==
    IF s.current_source # "polar" THEN s
    ELSE IF s.device_address = NoAddress THEN s
    ELSE IF s.reconnecting \/ s.reconnect_scheduled THEN s
    ELSE IF s.rssi_worker = "running"
    THEN [s EXCEPT !._last_rssi_request_at = now]
    ELSE [s EXCEPT !._last_rssi_request_at = now,
                   !.rssi_worker = "running",
                   !.rssi_probes = @ + 1]

\* request_rssi_update without the test of the reconnect cycle.
request_rssi_update_while_reconnecting(s) ==
    IF s.current_source # "polar" THEN s
    ELSE IF s.device_address = NoAddress THEN s
    ELSE IF /\ ~Falsy(s._last_rssi_request_at)
            /\ now - s._last_rssi_request_at < RSSI_MIN_INTERVAL_SECONDS
    THEN s
    ELSE IF s.rssi_worker = "running"
    THEN [s EXCEPT !._last_rssi_request_at = now]
    ELSE [s EXCEPT !._last_rssi_request_at = now,
                   !.rssi_worker = "running",
                   !.rssi_probes = @ + 1]

request_rssi_update(s) ==
    IF s.current_source # "polar" THEN s
    ELSE IF s.device_address = NoAddress THEN s
    ELSE IF s.reconnecting \/ s.reconnect_scheduled THEN s
    ELSE IF /\ ~Falsy(s._last_rssi_request_at)
            /\ now - s._last_rssi_request_at < RSSI_MIN_INTERVAL_SECONDS
    THEN s
    ELSE LET s1 == [s EXCEPT !._last_rssi_request_at = now]
         IN  IF s1.rssi_worker = "running" THEN s1
             ELSE [s1 EXCEPT !.rssi_worker = "running",
                             !.rssi_probes = @ + 1]

\* The rest of log_heartbeat_status writes the log.
log_heartbeat_status(s) == request_rssi_update(s)

on_rssi_update(s, rssi) ==
    [s EXCEPT !.last_rssi_time = now,
              !.last_rssi_value = IF rssi.type = "int" THEN rssi.value
                                  ELSE None]

\* ----------------------------------------------------------------- actions
\* The history variables after handler op took the window from pre to post.
\* A reconnect cycle ends when `reconnecting` falls; the handlers named in
\* `exited` clear it only in _exit_reconnect_cycle_to_idle.
History(pre, post, op) ==
    LET exited == op \in { "on_status_update", "check_heartbeat_timeout",
                           "_restart_connection" }
                  /\ pre.reconnecting /\ ~post.reconnecting
    IN  /\ last_op' = op
        /\ was_reconnecting' = pre.reconnecting
        /\ gave_up' = IF op = "on_connect_clicked" THEN FALSE
                      ELSE IF exited THEN TRUE
                      ELSE gave_up
        /\ last_restart_at' =
              IF ~pre.reconnecting \/ ~post.reconnecting THEN None
              ELSE IF op = "_restart_connection" THEN now
              ELSE IF op = "check_heartbeat_timeout"
              THEN Earlier(last_restart_at, RECONNECT_COOLDOWN_SECONDS)
              ELSE last_restart_at
        /\ stall_transitions' =
              IF op = "on_hr_update" \/ exited THEN 0
              ELSE IF op = "check_heartbeat_timeout"
                      /\ ~pre.reconnecting /\ post.reconnecting
              THEN stall_transitions + 1
              ELSE stall_transitions
        /\ last_probe_at' = IF post.rssi_probes > pre.rssi_probes THEN now
                            ELSE pre.last_probe_at
        /\ probe_gap' = IF post.rssi_probes > pre.rssi_probes
                           /\ pre.last_probe_at # None
                        THEN now - pre.last_probe_at
                        ELSE probe_gap
        /\ elapsed' = pre.elapsed
        /\ alerted' = post.alerted
        /\ connected_at' =
              IF \/ op \in { "on_hr_update", "on_connect_clicked" }
                 \/ post.reconnecting
                 \/ post.worker.pc \in { "none", "done" }
              THEN None
              ELSE IF /\ op = "on_status_update"
                      /\ Head(queue) \in { Signal("status", TextConnectedPolar),
                                           Signal("status", TextConnectedPulsoid) }
              THEN now
              ELSE pre.connected_at

Environment ==
    << cfg_source, cfg_token, osc_clients, osc_fail, push_notifies >>

Graph ==
    << x_data, y_data, follow_live, last_user_interaction,
       _programmatic_range_change >>

Sampler ==
    << rssi_worker, rssi_probes, rssi_signals, _last_rssi_request_at,
       last_rssi_value, last_rssi_time, last_probe_at, probe_gap >>

\* The handler took the window from pre to post.
Handled(pre, post, op) ==
    /\ Len(post.timers) <= MaxTimers
    /\ BagCardinality(post.orphans) <= MaxOrphans
    /\ Become(post)
    /\ History(pre, post, op)
    /\ UNCHANGED Environment

\* The user clicks Connect.
ConnectClicked ==
    /\ connect_enabled
    /\ \E o \in WaitOutcomes(MainWindow) :
          Handled(MainWindow, on_connect_clicked(MainWindow, o),
                  "on_connect_clicked")

Popped == [MainWindow EXCEPT !.queue = Tail(@)]

\* The GUI thread takes the queued signal at the head of its event queue.
DeliverStatus ==
    /\ queue # << >>
    /\ Head(queue).sig = "status"
    /\ \E o \in WaitOutcomes(MainWindow) :
          Handled(MainWindow, on_status_update(Popped, Head(queue).val, o),
                  "on_status_update")

DeliverHr ==
    /\ queue # << >>
    /\ Head(queue).sig = "hr"
    /\ Len(x_data) < MaxSamples
    /\ Handled(MainWindow, on_hr_update(Popped, Head(queue).val),
               "on_hr_update")

DeliverAddr ==
    /\ queue # << >>
    /\ Head(queue).sig = "addr"
    /\ Handled(MainWindow, on_device_address(Popped, Head(queue).val),
               "on_device_address")

Without(seq, i) == SubSeq(seq, 1, i - 1) \o SubSeq(seq, i + 1, Len(seq))

\* A single-shot timer set by reconnect expires.
RestartTimer ==
    \E i \in 1..Len(timers) :
       /\ timers[i] <= now
       /\ LET fired == [MainWindow EXCEPT !.timers = Without(@, i)] IN
          \E o \in WaitOutcomes(MainWindow) :
             Handled(MainWindow, _restart_connection(fired, o),
                     "_restart_connection")

\* self.watchdog expires, WatchdogIntervalSeconds after its last expiry.
WatchdogTick ==
    /\ queue = << >>
    /\ \A i \in 1..Len(timers) : timers[i] > now
    /\ \E o \in WaitOutcomes(MainWindow) :
          Handled(Aged(MainWindow),
                  check_heartbeat_timeout(Aged(MainWindow), o),
                  "check_heartbeat_timeout")

\* The thread of self.worker returns from the await it is at.
WorkerStep ==
    /\ worker.pc \notin { "none", "done" }
    /\ queue = << >>
    /\ \E c \in Choices(worker), bpm \in Bpms :
          LET r == run(worker, c, bpm) IN
          /\ r # Goes(worker, worker.pc, << >>)
          /\ worker' = r.thread
          /\ queue' = queue \o r.emits
    /\ last_op' = "run"
    /\ elapsed' = 0
    /\ alerted' = FALSE
    /\ connected_at' = connected_at
    /\ UNCHANGED << Environment, Graph, Sampler, was_reconnecting, gave_up,
                    current_source, last_hr_time, last_hr_value, reconnecting,
                    reconnect_scheduled, reconnect_started_at,
                    last_reconnect_attempt_at, connect_enabled,
                    device_address, orphans, timers, osc_sent,
                    last_restart_at, stall_transitions >>

\* A thread the supervisor has dropped returns from the await it is at.
OrphanStep ==
    /\ queue = << >>
    /\ \E t \in BagToSet(orphans) :
          \E c \in Choices(t), bpm \in Bpms :
             LET r == run(t, c, bpm) IN
             /\ orphans' = IF r.thread.pc = "done"
                           THEN orphans (-) SetToBag({ t })
                           ELSE (orphans (-) SetToBag({ t }))
                                    (+) SetToBag({ r.thread })
             /\ queue' = queue \o Stale(r.emits)
    /\ last_op' = "orphan_run"
    /\ elapsed' = 0
    /\ alerted' = FALSE
    /\ connected_at' = connected_at
    /\ UNCHANGED << Environment, Graph, Sampler, was_reconnecting, gave_up,
                    worker, current_source, last_hr_time, last_hr_value,
                    reconnecting, reconnect_scheduled,
                    reconnect_started_at, last_reconnect_attempt_at,
                    connect_enabled, device_address, timers, osc_sent,
                    last_restart_at, stall_transitions >>

\* MainWindow.__init__
InitWindow ==
    /\ worker = NoWorker
    /\ current_source = cfg_source
    /\ last_hr_time = None
    /\ last_hr_value = None
    /\ reconnecting = FALSE
    /\ reconnect_scheduled = FALSE
    /\ reconnect_started_at = None
    /\ last_reconnect_attempt_at = None
    /\ connect_enabled = TRUE
    /\ device_address = NoAddress
    /\ orphans = EmptyBag
    /\ queue = << >>
    /\ timers = << >>
    /\ osc_sent = [i \in 1..Len(osc_clients) |-> << >>]
    /\ x_data = << >>
    /\ y_data = << >>
    /\ follow_live = TRUE
    /\ last_user_interaction = None
    /\ _programmatic_range_change = FALSE
    /\ rssi_worker = "None"
    /\ rssi_probes = 0
    /\ rssi_signals = << >>
    /\ _last_rssi_request_at = None
    /\ last_rssi_value = None
    /\ last_rssi_time = None
    /\ last_probe_at = None
    /\ probe_gap = None
    /\ elapsed = 0
    /\ alerted = FALSE
    /\ connected_at = None
    /\ last_op = "__init__"
    /\ was_reconnecting = FALSE
    /\ gave_up = FALSE
    /\ last_restart_at = None
    /\ stall_transitions = 0

Configs ==
    { << "polar", "" >>, << "pulsoid", "tok" >>, << "pulsoid", "" >>,
      << "pulsoid", " " >> }

Init ==
    /\ \E c \in Configs : cfg_source = c[1] /\ cfg_token = c[2]
    /\ osc_clients = << 9000 >>
    /\ osc_fail = NoOscFailure
    /\ push_notifies = FALSE
    /\ InitWindow

Next ==
    \/ ConnectClicked
    \/ DeliverStatus
    \/ DeliverHr
    \/ DeliverAddr
    \/ RestartTimer
    \/ WatchdogTick
    \/ WorkerStep
    \/ OrphanStep

Spec == Init /\ [][Next]_vars

\* ------------------------------------------------- the publisher on its own
\* on_hr_update called once on a fresh window, for every sample value, list
\* of sinks and send_message call that raises.
OscPorts == { [i \in 1..n |-> 8999 + i] : n \in 1..MaxSinks }

OscFailures(clients) ==
    { NoOscFailure }
        \cup [sink : 1..Len(clients), msg : 1..Len(OscMessages(0))]

InitOsc ==
    /\ cfg_source = "polar"
    /\ cfg_token = ""
    /\ osc_clients \in OscPorts
    /\ osc_fail \in OscFailures(osc_clients)
    /\ push_notifies = FALSE
    /\ InitWindow

HrUpdate ==
    /\ last_op = "__init__"
    /\ \E bpm \in 0..MaxBpm :
          Handled(MainWindow, on_hr_update(MainWindow, bpm), "on_hr_update")

NextOsc == HrUpdate

SpecOsc == InitOsc /\ [][NextOsc]_vars

\* ----------------------------------------------------- the graph on its own
\* The slots of the graph called on a fresh window: samples arrive, the user
\* touches the plot or clicks Live, and self.snapback_timer is the clock.
SampleValues == { 60, 187 }

InitGraph ==
    /\ cfg_source = "polar"
    /\ cfg_token = ""
    /\ osc_clients = << 9000 >>
    /\ osc_fail = NoOscFailure
    /\ push_notifies \in BOOLEAN
    /\ InitWindow

HrArrives ==
    /\ Len(x_data) < MaxBuffer
    /\ \E bpm \in SampleValues :
          Handled(MainWindow, on_hr_update(MainWindow, bpm), "on_hr_update")

\* LiveViewBox._touch: a mouse or wheel event on the plot.
UserInteracts ==
    Handled(MainWindow, on_user_interaction(MainWindow),
            "on_user_interaction")

\* self.live_btn.clicked
LiveClicked ==
    Handled(MainWindow, snap_to_live(MainWindow), "snap_to_live")

\* self.snapback_timer expires, SnapbackIntervalSeconds after its last expiry.
SnapbackTick ==
    Handled(AgedBy(MainWindow, SnapbackIntervalSeconds),
            check_snapback(AgedBy(MainWindow, SnapbackIntervalSeconds)),
            "check_snapback")

NextGraph ==
    \/ HrArrives
    \/ UserInteracts
    \/ LiveClicked
    \/ SnapbackTick

SpecGraph == InitGraph /\ [][NextGraph]_vars

\* ---------------------------------------------------- the sampler on its own
\* request_rssi_update reads four fields the supervisor writes:
\* current_source, device_address, reconnecting and _reconnect_scheduled.
\* Here the supervisor is any sequence of changes of these four among the
\* values its handlers give them (open_settings, on_device_address, the
\* reconnect cycle), which covers whatever the supervisor does in between two
\* requests.  The requests come from self.heartbeat_timer and, as
\* request_rssi_update allows for ("even if some future code path calls it
\* more often"), from direct calls at shorter intervals.
ReconnectFlags == { << FALSE, FALSE >>, << TRUE, FALSE >>, << TRUE, TRUE >> }

RequestDelays == { 0, RSSI_MIN_INTERVAL_SECONDS \div 2 }

InitRssi ==
    /\ cfg_source = "polar"
    /\ cfg_token = ""
    /\ osc_clients = << 9000 >>
    /\ osc_fail = NoOscFailure
    /\ push_notifies = FALSE
    /\ InitWindow

SupervisorMoves ==
    \E source \in Sources, address \in { NoAddress, DeviceAddr },
       flags \in ReconnectFlags :
       LET post == [MainWindow EXCEPT !.current_source = source,
                                      !.device_address = address,
                                      !.reconnecting = flags[1],
                                      !.reconnect_scheduled = flags[2]]
       IN  /\ post # MainWindow
           /\ Become(post)
           /\ last_op' = "supervisor"
           /\ elapsed' = 0
           /\ alerted' = FALSE
           /\ connected_at' = connected_at
           /\ UNCHANGED << Environment, last_probe_at, probe_gap,
                           was_reconnecting, gave_up, last_restart_at,
                           stall_transitions >>

\* self.heartbeat_timer expires, HeartbeatIntervalSeconds after the last step.
HeartbeatTick ==
    Handled(AgedBy(MainWindow, HeartbeatIntervalSeconds),
            log_heartbeat_status(AgedBy(MainWindow, HeartbeatIntervalSeconds)),
            "log_heartbeat_status")

\* request_rssi_update is called d seconds after the last step.
RequestRssi ==
    \E d \in RequestDelays :
       Handled(AgedBy(MainWindow, d), request_rssi_update(AgedBy(MainWindow, d)),
               "request_rssi_update")

\* RSSIWorker.run emits its reading and returns.
ProbeReturns ==
    /\ rssi_probes > 0
    /\ rssi_signals = << >>
    /\ \E rssi \in RssiReadings : rssi_signals' = << rssi >>
    /\ rssi_probes' = rssi_probes - 1
    /\ rssi_worker' = IF rssi_probes = 1 THEN "finished" ELSE rssi_worker
    /\ last_op' = "RSSIWorker.run"
    /\ elapsed' = 0
    /\ alerted' = FALSE
    /\ connected_at' = connected_at
    /\ UNCHANGED << Environment, Graph, _last_rssi_request_at,
                    last_rssi_value, last_rssi_time, last_probe_at,
                    probe_gap, was_reconnecting, gave_up, worker,
                    current_source, last_hr_time, last_hr_value,
                    reconnecting, reconnect_scheduled,
                    reconnect_started_at, last_reconnect_attempt_at,
                    connect_enabled, device_address, orphans, queue,
                    timers, osc_sent, last_restart_at, stall_transitions >>

\* The GUI thread takes the queued rssi_signal.
DeliverRssi ==
    /\ rssi_signals # << >>
    /\ Handled(MainWindow,
               on_rssi_update([MainWindow EXCEPT !.rssi_signals = Tail(@)],
                              Head(rssi_signals)),
               "on_rssi_update")

NextRssi ==
    \/ SupervisorMoves
    \/ HeartbeatTick
    \/ RequestRssi
    \/ ProbeReturns
    \/ DeliverRssi

SpecRssi == InitRssi /\ [][NextRssi]_vars

\* ================================================================ properties

\* The threads that have been started and have not returned from run():
\* the one self.worker refers to and the ones stop_worker let go of.
LiveTransports ==
    (IF worker.pc \in { "none", "done" } THEN 0 ELSE 1)
        + BagCardinality(orphans)

\* C1: at any instant at most one transport is live; when start_worker has
\* made the new transport, every transport started before it has returned
\* from run(), also when the bounded wait of stop_worker timed out.
C1_AtMostOneLiveTransport == LiveTransports <= 1

\* C2: from the give-up of a reconnect cycle until the user clicks Connect,
\* the supervisor is idle: no transport, no reconnect cycle, no restart
\* made on its own.
C2_IdleUntilConnectClicked ==
    gave_up => /\ worker = NoWorker
               /\ ~reconnecting
               /\ ~reconnect_scheduled
               /\ reconnect_started_at = None

\* C4: inside one reconnect cycle, a restart of the transport comes at least
\* RECONNECT_COOLDOWN_SECONDS after the restart before it.
C4_RestartsACooldownApart ==
    [][(/\ last_op' = "_restart_connection"
        /\ reconnecting /\ reconnecting'
        /\ last_restart_at # None)
       => now - last_restart_at >= RECONNECT_COOLDOWN_SECONDS]_vars

\* C9: a transport that stop_worker has stopped and let go of emits no
\* heart-rate sample afterwards.
C9_NoSampleAfterStop ==
    last_op = "orphan_run" => \A i \in 1..Len(queue) : queue[i].sig # "hr"

\* C10: once stop_worker has returned, which is 3 s (more than one polling
\* interval) after stop(), the stopped transport has left its receive loop,
\* whether or not a message came in.
C10_StoppedLoopTerminates ==
    \A t \in BagToSet(orphans) : t.pc # "streaming"

\* The supervisor as _exit_reconnect_cycle_to_idle leaves it.
Idle ==
    /\ ~reconnecting
    /\ ~reconnect_scheduled
    /\ reconnect_started_at = None
    /\ last_reconnect_attempt_at = None
    /\ last_hr_time = None
    /\ worker = NoWorker
    /\ connect_enabled

\* check_heartbeat_timeout runs in this step.
Watchdog == last_op' = "check_heartbeat_timeout"

\* C3: no reconnect cycle is open for reconnect_max_seconds or longer once
\* the watchdog has run, and the watchdog tick at which the cycle's age
\* reaches reconnect_max_seconds leaves the supervisor idle by give-up,
\* whatever restarts are pending.
C3_GiveUpAtBudget ==
    /\ [](reconnect_started_at # None
            => now - reconnect_started_at < reconnect_max_seconds)
    /\ [][(/\ Watchdog
           /\ reconnect_started_at # None
           /\ now - Earlier(reconnect_started_at, reconnect_max_seconds)
                 >= reconnect_max_seconds)
          => Idle' /\ gave_up']_vars

C3_Witness ==
    /\ last_op = "check_heartbeat_timeout"
    /\ was_reconnecting
    /\ gave_up
    /\ Idle
    /\ timers # << >>

\* A connection error is handled in this step, inside the cooldown of an
\* open reconnect cycle, with no restart pending.
ErrorInsideCooldown ==
    /\ queue # << >>
    /\ Head(queue).sig = "status"
    /\ HasConnectionError(Head(queue).val)
    /\ last_op' = "on_status_update"
    /\ reconnecting
    /\ ~reconnect_scheduled
    /\ ~_reconnect_time_exceeded(MainWindow)
    /\ ~_can_attempt_reconnect_now(MainWindow)

\* C5: a reconnect requested inside the cooldown schedules a restart for the
\* instant the cooldown lapses and leaves the transport alone; a scheduled
\* restart stays pending until it runs; and when it runs in a cycle that is
\* still open and inside its budget, it starts a new transport.
C5_DeferredNotDropped ==
    /\ [][ErrorInsideCooldown
          => /\ reconnect_scheduled'
             /\ timers' = Append(timers, last_reconnect_attempt_at
                                             + RECONNECT_COOLDOWN_SECONDS)
             /\ worker' = worker
             /\ reconnecting']_vars
    /\ [](reconnect_scheduled => timers # << >>)
    /\ [][Len(timers') < Len(timers)
          => last_op' = "_restart_connection"]_vars
    /\ [][(/\ last_op' = "_restart_connection"
           /\ reconnecting
           /\ ~_reconnect_time_exceeded(MainWindow))
          => /\ worker' \in { PolarWorker_init,
                              PulsoidWorker_init(cfg_token) }
             /\ reconnecting']_vars

\* The restart that has just run was a deferred one: it comes a whole
\* cooldown after the attempt, and not reconnect_delay_seconds after it.
C5_Witness ==
    /\ last_op = "_restart_connection"
    /\ was_reconnecting
    /\ reconnecting
    /\ worker.pc = "start"
    /\ last_reconnect_attempt_at = now - RECONNECT_COOLDOWN_SECONDS

\* C6: the watchdog tick that finds, while streaming, the last sample more
\* than reconnect_timeout old sets reconnecting, starts the cycle at that
\* instant and clears last_hr_time; no watchdog tick in an open cycle starts
\* the cycle again; and between two samples, or a sample and a give-up, the
\* watchdog makes that transition at most once.
C6_StallTransitionsOnce ==
    /\ [][(/\ Watchdog
           /\ ~reconnecting
           /\ worker # NoWorker
           /\ last_hr_time # None
           /\ now - Earlier(last_hr_time,
                            reconnect_timeout + WatchdogIntervalSeconds)
                 > reconnect_timeout)
          => /\ reconnecting'
             /\ reconnect_started_at' = now
             /\ last_hr_time' = None
             /\ stall_transitions' = 1]_vars
    /\ [][(Watchdog /\ reconnecting)
          => \/ /\ reconnecting'
                /\ reconnect_started_at'
                      = Earlier(reconnect_started_at, reconnect_max_seconds)
                /\ stall_transitions' = stall_transitions
             \/ Idle']_vars
    /\ [](stall_transitions <= 1)

C6_Witness ==
    /\ last_op = "check_heartbeat_timeout"
    /\ ~was_reconnecting
    /\ reconnecting
    /\ stall_transitions = 1
    /\ reconnect_started_at = now
    /\ last_hr_time = None

\* C7: on_hr_update, run while reconnecting, leaves reconnecting and
\* _reconnect_scheduled false, reconnect_started_at and
\* last_reconnect_attempt_at None, and last_hr_time the time of arrival.
C7_SampleEndsReconnecting ==
    [][(last_op' = "on_hr_update" /\ reconnecting)
       => /\ ~reconnecting'
          /\ ~reconnect_scheduled'
          /\ reconnect_started_at' = None
          /\ last_reconnect_attempt_at' = None
          /\ last_hr_time' = now]_vars

C7_Witness ==
    /\ last_op = "on_hr_update"
    /\ was_reconnecting
    /\ ~reconnecting
    /\ last_hr_time = now

\* C8: when the transmission to one sink fails, each of the other sinks has
\* been sent the four parameters of the sample, wherever the failing sink
\* stands in the list.
C8_RemainingSinksServed ==
    (last_op = "on_hr_update" /\ osc_fail # NoOscFailure)
        => \A i \in 1..Len(osc_clients) :
              i # osc_fail.sink => osc_sent[i] = OscMessages(last_hr_value)

\* C11: a sample that arrives while the supervisor is idle after a give-up
\* (no transport, no reconnect cycle) is neither appended to the buffer nor
\* published.
C11_IdleSampleNotForwarded ==
    [][(/\ last_op' = "on_hr_update"
        /\ gave_up
        /\ worker = NoWorker
        /\ ~reconnecting)
       => /\ x_data' = x_data
          /\ y_data' = y_data
          /\ osc_sent' = osc_sent]_vars

\* C12: on_hr_update appends the pair (arrival time, bpm) at the end of
\* x_data / y_data; no other step changes the buffer (the passing of time
\* makes every stored timestamp older and nothing else); and the timestamps
\* of the buffer never decrease along it.
C12_BufferAppendOnly ==
    /\ [][last_op' = "on_hr_update"
          => /\ x_data' = Append(x_data, now)
             /\ y_data' = Append(y_data, last_hr_value')]_vars
    /\ [][last_op' = "check_snapback"
          => /\ y_data' = y_data
             /\ x_data' = [i \in 1..Len(x_data) |->
                             EarlierBy(x_data[i], SnapbackIntervalSeconds,
                                       MaxSampleAge)]]_vars
    /\ [][last_op' \notin { "on_hr_update", "check_snapback" }
          => x_data' = x_data /\ y_data' = y_data]_vars
    /\ [](\A i \in 1..(Len(x_data) - 1) : x_data[i] <= x_data[i + 1])
    /\ [](Len(x_data) = Len(y_data))

C12_Witness ==
    /\ last_op = "on_hr_update"
    /\ Len(x_data) >= 2
    /\ x_data[1] < x_data[2]
    /\ y_data[1] # y_data[2]
    /\ x_data[Len(x_data)] = now

\* C13: for a sample between 0 and 999, every sink that was sent the four
\* parameters received ones, tens and hundreds that are decimal digits, that
\* recompose to the sample (hundreds * 100 + tens * 10 + ones), and a fourth
\* parameter equal to the sample.
C13_DigitsExact ==
    (last_op = "on_hr_update" /\ last_hr_value \in 0..999)
        => \A i \in 1..Len(osc_clients) :
              Len(osc_sent[i]) = 4
                  => LET ones_hr == osc_sent[i][1].value
                         tens_hr == osc_sent[i][2].value
                         hundreds_hr == osc_sent[i][3].value
                     IN  /\ osc_sent[i][1].path = "/avatar/parameters/hr/ones_hr"
                         /\ osc_sent[i][2].path = "/avatar/parameters/hr/tens_hr"
                         /\ osc_sent[i][3].path
                                = "/avatar/parameters/hr/hundreds_hr"
                         /\ osc_sent[i][4].path
                                = "/avatar/parameters/hr/heart_rate"
                         /\ { ones_hr, tens_hr, hundreds_hr } \subseteq 0..9
                         /\ last_hr_value
                                = hundreds_hr * 100 + tens_hr * 10 + ones_hr
                         /\ osc_sent[i][4].value = last_hr_value

C13_Witness ==
    /\ last_op = "on_hr_update"
    /\ last_hr_value = 187
    /\ Len(osc_sent[1]) = 4
    /\ osc_sent[1][1].value = 7
    /\ osc_sent[1][2].value = 8
    /\ osc_sent[1][3].value = 1
    /\ osc_sent[1][4].value = 187

\* C14: a Pulsoid transport started with an empty or whitespace-only token
\* emits the "token not set" status at its first step and returns; with such
\* a token no thread ever attempts a connection and no sample is ever emitted
\* or received.
C14_NoTokenNoAttempt ==
    /\ [][(/\ worker.kind = "pulsoid"
           /\ worker.pc = "start"
           /\ Strip(cfg_token) = ""
           /\ last_op' = "run")
          => /\ worker' = Finished
             /\ queue' = queue \o << Signal("status", TextNoToken) >>]_vars
    /\ []((cfg_source = "pulsoid" /\ Strip(cfg_token) = "")
            => /\ worker.pc \notin { "connecting", "streaming" }
               /\ \A t \in BagToSet(orphans) :
                     t.pc \notin { "connecting", "streaming" }
               /\ \A i \in 1..Len(queue) : queue[i].sig # "hr"
               /\ last_hr_value = None
               /\ x_data = << >>)

C14_Witness ==
    /\ cfg_source = "pulsoid"
    /\ cfg_token = " "
    /\ last_op = "run"
    /\ worker = Finished
    /\ queue = << Signal("status", TextNoToken) >>

\* C15: when on_status_update handles the "token not set" status of a
\* transport that was not started by a reconnect cycle, the supervisor leaves
\* Connecting: the connect control is enabled again or a reconnect cycle has
\* begun.
C15_NoTokenLeavesConnecting ==
    [][(/\ queue # << >>
        /\ Head(queue) = Signal("status", TextNoToken)
        /\ ~connect_enabled
        /\ ~reconnecting
        /\ last_op' = "on_status_update")
       => connect_enabled' \/ reconnecting']_vars

\* C16: an interaction of the user with the plot leaves the graph in explore
\* mode (follow_live false) with last_user_interaction the time of the
\* interaction, whether it was following or exploring before; a notification
\* that arrives while the window itself moves the range changes nothing: the
\* handler that pushed the range leaves follow_live and last_user_interaction
\* as it would have without the notification.
C16_InteractionPausesFollow ==
    /\ [][last_op' = "on_user_interaction"
          => ~follow_live' /\ last_user_interaction' = now]_vars
    /\ [][last_op' = "on_hr_update"
          => /\ follow_live' = follow_live
             /\ last_user_interaction' = last_user_interaction]_vars
    /\ [][last_op' = "snap_to_live"
          => follow_live' /\ last_user_interaction' = None]_vars
    /\ [](~_programmatic_range_change)

C16_Witness ==
    /\ push_notifies
    /\ x_data # << >>
    /\ last_op = "on_user_interaction"
    /\ ~follow_live
    /\ last_user_interaction = now

\* The age last_user_interaction has at the next expiry of snapback_timer.
AgeAtNextTick ==
    now - EarlierBy(last_user_interaction, SnapbackIntervalSeconds,
                    snap_back_seconds)

\* C17: in explore mode the periodic check returns the graph to following
\* exactly when snap_back_seconds or more have passed since the last
\* interaction, so explore mode never outlasts that age; nothing but the
\* periodic check and snap_to_live returns it to following; and both leave
\* last_user_interaction cleared.
C17_SnapBackAfterIdle ==
    /\ [][(last_op' = "check_snapback" /\ ~follow_live)
          => /\ follow_live' <=> AgeAtNextTick >= snap_back_seconds
             /\ follow_live' => last_user_interaction' = None]_vars
    /\ [][(~follow_live /\ follow_live')
          => last_op' \in { "check_snapback", "snap_to_live" }]_vars
    /\ [][last_op' = "snap_to_live"
          => follow_live' /\ last_user_interaction' = None]_vars
    /\ [](~follow_live
            => /\ last_user_interaction # None
               /\ now - last_user_interaction < snap_back_seconds)

C17_Witness ==
    /\ ~follow_live
    /\ last_op = "check_snapback"
    /\ AgeAtNextTick = snap_back_seconds

\* The request handlers of the sampler.
Requests == { "request_rssi_update", "log_heartbeat_status" }

\* The step leaves the rate-limit timestamp at the instant it named.
SameRequestInstant ==
    _last_rssi_request_at'
        = EarlierBy(_last_rssi_request_at, elapsed', RSSI_MIN_INTERVAL_SECONDS)

\* C18: whenever an RSSIWorker is started, the one started before it was
\* started RSSI_MIN_INTERVAL_SECONDS or more earlier, and the request that
\* starts it stamps the rate limit.
C18_ProbesAMinuteApart ==
    /\ [](probe_gap # None => probe_gap >= RSSI_MIN_INTERVAL_SECONDS)
    /\ [][(last_op' \in Requests /\ rssi_probes' > rssi_probes)
          => /\ _last_rssi_request_at' = now
             /\ last_probe_at' = now
             /\ \/ last_probe_at = None
                \/ now - EarlierBy(last_probe_at, elapsed',
                                   RSSI_MIN_INTERVAL_SECONDS)
                      >= RSSI_MIN_INTERVAL_SECONDS]_vars

C18_Witness ==
    /\ last_op \in Requests
    /\ last_probe_at = now
    /\ probe_gap = RSSI_MIN_INTERVAL_SECONDS
    /\ rssi_probes = 1

\* The supervisor is mid-reconnect, or the source is not the BLE transport,
\* or no device address has been reported.
Suppressed ==
    \/ reconnecting
    \/ reconnect_scheduled
    \/ current_source # "polar"
    \/ device_address = NoAddress

\* C19: a request made while the sampler is suppressed starts no RSSIWorker
\* and leaves the rate-limit timestamp naming the instant it named.
C19_SuppressedRequestInert ==
    [][(last_op' \in Requests /\ Suppressed)
       => /\ rssi_probes' = rssi_probes
          /\ rssi_worker' = rssi_worker
          /\ SameRequestInstant]_vars

C19_Witness ==
    /\ last_op \in Requests
    /\ Suppressed
    /\ reconnecting
    /\ _last_rssi_request_at # None
    /\ now - _last_rssi_request_at >= RSSI_MIN_INTERVAL_SECONDS
    /\ rssi_worker = "finished"

\* C20: at most one RSSIWorker runs at a time, and a request made while one
\* runs starts none and leaves the sampler as it was, the rate-limit
\* timestamp included.
C20_OutstandingRequestNoOp ==
    /\ [](rssi_probes <= 1)
    /\ [][(last_op' \in Requests /\ rssi_probes > 0)
          => /\ rssi_probes' = rssi_probes
             /\ rssi_worker' = rssi_worker
             /\ last_rssi_value' = last_rssi_value
             /\ SameRequestInstant]_vars

\* C21: reconnect_started_at is the instant the reconnect cycle began: it is
\* stamped by the step that raises `reconnecting`, and every step that finds
\* and leaves `reconnecting` raised (a connection error, a watchdog tick, a
\* reconnect request, a restart) leaves it naming that instant.
C21_StartedAtSetOnce ==
    /\ [][(~reconnecting /\ reconnecting')
          => reconnect_started_at' = now]_vars
    /\ [][(reconnecting /\ reconnecting')
          => reconnect_started_at'
                = EarlierBy(reconnect_started_at, elapsed',
                            reconnect_max_seconds)]_vars
    /\ [](reconnecting => reconnect_started_at # None)

C21_Witness ==
    /\ reconnecting
    /\ was_reconnecting
    /\ last_op = "on_status_update"
    /\ reconnect_started_at # None
    /\ now - reconnect_started_at >= 2 * WatchdogIntervalSeconds

\* C22: on_status_update shows no alert for a status it handles while a
\* reconnect cycle is open, nor for a status that says "connection error"
\* (a cancellation included), whether it starts a cycle or continues one.
C22_NoAlertWhileRecovering ==
    [][(/\ last_op' = "on_status_update"
        /\ \/ reconnecting
           \/ HasConnectionError(Head(queue).val))
       => ~alerted']_vars

\* A discovery failure handled inside a reconnect cycle: no alert.
C22_Witness ==
    /\ last_op = "on_status_update"
    /\ was_reconnecting
    /\ reconnecting
    /\ worker = Finished
    /\ ~alerted
    /\ ~reconnect_scheduled
    /\ ~connect_enabled

\* C23: when on_status_update handles "Polar H10 not found." from the
\* transport of an open reconnect cycle whose budget is not spent, another
\* attempt follows: a restart is scheduled or a transport is running.
C23_DiscoveryFailureRetried ==
    [][(/\ last_op' = "on_status_update"
        /\ Head(queue) = Signal("status", TextNotFound)
        /\ reconnecting
        /\ ~_reconnect_time_exceeded(MainWindow))
       => \/ reconnect_scheduled'
          \/ worker'.pc \notin { "none", "done" }]_vars

\* The initial Connecting phase of a Polar source: the user has clicked
\* Connect, no sample has ever arrived, no cycle is open or was given up, and
\* no restart is pending.  The model's PolarWorker reports a connection error
\* only from BleakClient's connect, before its "Connected" status.
InitialConnecting ==
    /\ cfg_source = "polar"
    /\ ~connect_enabled
    /\ last_hr_value = None
    /\ ~reconnecting
    /\ ~reconnect_scheduled
    /\ ~gave_up
    /\ timers = << >>
    /\ orphans = EmptyBag

\* C24: a connection error handled during the initial Connecting phase is
\* shown to the user and enables the connect control again, and opens no
\* reconnect cycle.
C24_InitialErrorSurfaced ==
    [][(/\ last_op' = "on_status_update"
        /\ InitialConnecting
        /\ HasConnectionError(Head(queue).val)
        /\ ~Head(queue).stale)
       => /\ ~reconnecting'
          /\ connect_enabled'
          /\ alerted']_vars

\* C25: when self.worker has reported "Connected" outside a reconnect cycle
\* and more than reconnect_timeout seconds have passed since without a
\* sample, the watchdog opens a reconnect cycle.
C25_SilentConnectionDetected ==
    [][(/\ Watchdog
        /\ connected_at # None
        /\ now - EarlierBy(connected_at, elapsed',
                           reconnect_timeout + WatchdogIntervalSeconds)
              > reconnect_timeout)
       => reconnecting']_vars

\* C26: a pending _restart_connection that fires when no reconnect cycle is
\* open (a sample or a connect click has closed the one that scheduled it)
\* leaves a running transport of the supervisor as it is.
C26_StaleRestartInert ==
    [][(/\ last_op' = "_restart_connection"
        /\ ~reconnecting
        /\ worker.pc \notin { "none", "done" })
       => /\ worker' = worker
          /\ orphans' = orphans]_vars

\* C27: a status or a sample emitted by a transport the supervisor has
\* already stopped leaves the supervisor as it was: no reconnect cycle is
\* opened, and self.worker is neither stopped nor replaced.
C27_StaleEventsIgnored ==
    [][(/\ last_op' \in { "on_status_update", "on_hr_update" }
        /\ Head(queue).stale)
       => /\ reconnecting' = reconnecting
          /\ reconnect_scheduled' = reconnect_scheduled
          /\ worker' = worker
          /\ connect_enabled' = connect_enabled
          /\ last_hr_value' = last_hr_value]_vars

\* C28: between handlers, reconnect_started_at is set exactly while
\* `reconnecting` is raised, and _reconnect_scheduled or a set
\* last_reconnect_attempt_at imply that `reconnecting` is raised.
C28_BookkeepingConsistent ==
    /\ reconnecting <=> reconnect_started_at # None
    /\ reconnect_scheduled => reconnecting
    /\ last_reconnect_attempt_at # None => reconnecting

C28_Witness ==
    /\ reconnecting
    /\ reconnect_scheduled
    /\ reconnect_started_at # None
    /\ last_reconnect_attempt_at # None
    /\ now - reconnect_started_at > now - last_reconnect_attempt_at

====
